---------------------------- MODULE Spec2Model ----------------------------
(***************************************************************************)
(* The option configuration console of gPXE (Myricom variant): the row     *)
(* enumerator row(), the jump-scrolling reveal(), the edit state machine   *)
(* and the navigator main_loop()/settings_ui().                            *)
(*                                                                         *)
(* One step of the navigator is one key read by getkey() together with     *)
(* everything main_loop() does until it blocks in getkey() again (or       *)
(* returns), a restart of main_loop() by settings_ui() included.           *)
(***************************************************************************)
EXTENDS Integers, Sequences, FiniteSets, TLC

VARIABLES
  tree,      \* the settings tree: scopes, parent, children, tag type, name
  qscope,    \* row enumerator harness: the scope last enumerated (0: none)
  qrows,     \* row enumerator harness: row(qscope, n) for n = 0..MaxQ, UINT_MAX
  rn,        \* reveal harness: the n of the last reveal ( widget, n ) call
  exec,      \* scriptlet_exec(): its position, the script buffer, the
             \* pointers line, from and to as offsets into the buffer, the
             \* commands passed to system() and the offset last written
  key,       \* the key getkey() returned last ("NONE" before the first)
  pc,        \* "getkey": main_loop blocks in getkey(); "done": settings_ui
             \* returned; "wild": control was lost through a wild pointer;
             \* "idle": no session
  widget,    \* struct setting_widget of main_loop
  current,   \* main_loop's local `current`
  store,     \* the settings store: store[scope][setting] is <<>> or <<raw>>
  alert,     \* the alert raised while handling the last key (<<>>: none)
  calls,     \* the store-changing calls issued while handling the last key
  loads,     \* the number of load_setting() calls while handling the last key
  fvTrace,   \* every value first_visible took while handling the last key
  frames,    \* the number of frame redraws by reveal() for the last key
  ellipsis,  \* the markers on screen above and below the list
  shown,     \* how the selected row is on screen: in bold or not, with the
             \* "inherited" comment line or not
  trail,     \* the scopes of the main_loop() calls that returned a next
             \* scope on the last keys in a row (the last two at most)
  flat       \* the variant without Parent and Child rows run side by side
             \* on the same keys: its position, widget, `current` and store

vars == <<tree, qscope, qrows, rn, exec, key, pc, widget, current, store, alert, calls,
          loads, fvTrace, frames, ellipsis, shown, trail, flat>>

mainvars == <<key, pc, widget, current, store, alert, calls, loads, fvTrace,
              frames, ellipsis, shown, trail>>

---------------------------------------------------------------------------
(* Bounds of the model *)

\* leaf children of the large scope of MainTree (it has NumKids + 2 rows)
NumKids == 15
\* longest text the line editor accepts (the code's buffer holds 255)
MaxLen == 1
\* cap on main_loop's `current` where the code lets it grow without bound
MaxCur == 17
\* scopes of a tree of the row enumerator harness
FamN == 4
\* largest ordinary index the row enumerator harness queries
MaxQ == 7
\* leaf children of the large scope of RevealTree (it has RevKids + 2 rows)
RevKids == 40
\* longest scriptlet the store holds (the code's buffer holds 255 characters
\* and the terminator)
ScriptMax == 5
\* registered settings of the tag type FlatTag (a scope of that tag type
\* with no parent and no child has FlatN rows)
FlatN == 3

(* Program constants *)

SETTINGS_LIST_ROW == 3
SETTINGS_LIST_COL == 1
SETTINGS_LIST_ROWS == 16
\* An unsigned int is held as its residue modulo 2^32 in -2^31 .. 2^31 - 1
\* (the model checker's integers are 32 bits wide): UINT_MAX is -1, sums and
\* differences are the integers' (no value of the model comes near 2^31),
\* and ULt is the unsigned comparison of two residues.
UINT_MAX == -1
ULt(a, b) == IF (a >= 0) = (b >= 0) THEN a < b ELSE b < 0

---------------------------------------------------------------------------
(* The setting registry: the SETTINGS linker table, in table order *)

\* The tag type of the settings after the first three: no scope of
\* MainTree, FamilyTrees or RevealTree has it.
FlatTag == 3

Registry ==
  << [name |-> "scriptlet", tagtype |-> 0, readonly |-> FALSE, type |-> "string"],
     [name |-> "mac",       tagtype |-> 0, readonly |-> TRUE,  type |-> "string"],
     [name |-> "priority",  tagtype |-> 1, readonly |-> FALSE, type |-> "int"] >>
  \o [i \in 1..FlatN |->
        [name |-> "opt", tagtype |-> FlatTag, readonly |-> FALSE,
         type |-> IF i = 1 THEN "string" ELSE "int"]]

NUM_SETTINGS == Len(Registry)
SettingIds == 1..NUM_SETTINGS
TagTypes == {0, 1, 2}

\* TAG_TYPE ( setting->tag ), TAG_READONLY ( setting->tag )
TAG_TYPE(d) == Registry[d].tagtype
TAG_READONLY(d) == Registry[d].readonly

---------------------------------------------------------------------------
(* Settings trees.  A tree is a record                                      *)
(*   scopes: the set of scope handles (positive; 0 is the NULL pointer),    *)
(*   parent[s]: the parent handle or 0, children[s]: the child list,        *)
(*   tag[s]: TAG_TYPE ( s->tag_magic ), name[s]: s->name ("" for a root).   *)

ChildrenOf(par, S, s) ==
  LET kids == {c \in S : par[c] = s}
      RECURSIVE Sorted(_)
      Sorted(K) == IF K = {} THEN <<>>
                   ELSE LET m == CHOOSE x \in K : \A y \in K : x <= y
                        IN <<m>> \o Sorted(K \ {m})
  IN Sorted(kids)

MkTree(S, par, tg) ==
  [scopes   |-> S,
   parent   |-> par,
   children |-> [s \in S |-> ChildrenOf(par, S, s)],
   tag      |-> tg,
   name     |-> [s \in S |-> IF par[s] = 0 THEN "" ELSE "net"]]

\* The tree of the navigator sessions: 1 is the root with children 2 and 3;
\* 2 has NumKids leaf children of a tag type no registered setting has;
\* 4 is a detached scope with no parent, no child and no relevant setting.
MainScopes == 1..(4 + NumKids)
MainTree ==
  MkTree(MainScopes,
         [s \in MainScopes |-> CASE s = 1 -> 0 [] s = 2 -> 1 [] s = 3 -> 1
                                 [] s = 4 -> 0 [] OTHER -> 2],
         [s \in MainScopes |-> CASE s = 1 -> 0 [] s = 2 -> 1 [] s = 3 -> 0
                                 [] OTHER -> 2])

\* The trees of the row enumerator harness: every forest on 1..FamN in which
\* a parent has a smaller handle than its child, with every tag assignment.
FamScopes == 1..FamN
FamilyTrees ==
  { MkTree(FamScopes, par, tg) :
      par \in {p \in [FamScopes -> 0..FamN] : \A s \in FamScopes : p[s] < s},
      tg \in [FamScopes -> TagTypes] }

---------------------------------------------------------------------------
(* relevant(): is the setting relevant to the scope of the settings block *)

\* relevance looked up in the scope and its direct children only
relevant_one_level(t, s, d) ==
  \/ TAG_TYPE(d) = t.tag[s]
  \/ \E i \in 1..Len(t.children[s]) : TAG_TYPE(d) = t.tag[t.children[s][i]]

RECURSIVE relevant(_, _, _)
relevant(t, s, d) ==
  IF TAG_TYPE(d) = t.tag[s] THEN TRUE
  ELSE \E i \in 1..Len(t.children[s]) : relevant(t, t.children[s][i], d)

---------------------------------------------------------------------------
(* row(): the n'th row to display, or a ROW_CNT row with the row count *)

Ro(type, u) == [type |-> type, u |-> u]

\* for_each_table_entry ( setting, SETTINGS ): d is the entry, cnt the counter
RECURSIVE row_settings(_, _, _, _, _)
row_settings(t, s, n, d, cnt) ==
  IF d > NUM_SETTINGS THEN Ro("ROW_CNT", cnt)
  ELSE IF relevant(t, s, d)
       THEN IF cnt = n THEN Ro("SETTING_ROW", d)
            ELSE row_settings(t, s, n, d + 1, (cnt + 1))
       ELSE row_settings(t, s, n, d + 1, cnt)

\* list_for_each_entry ( child, &settings->children, siblings )
RECURSIVE row_children(_, _, _, _, _)
row_children(t, s, n, i, cnt) ==
  IF i > Len(t.children[s]) THEN row_settings(t, s, n, 1, cnt)
  ELSE IF cnt = n THEN Ro("CHILD_ROW", t.children[s][i])
       ELSE row_children(t, s, n, i + 1, (cnt + 1))

\* the parent row returned but not counted
row_parent_not_counted(t, s, n) ==
  IF t.parent[s] # 0 /\ n = 0 THEN Ro("PARENT_ROW", t.parent[s])
  ELSE row_children(t, s, n, 1, 0)

\* the count of a ROW_CNT row taken before the settings were counted
row_cnt_without_settings(t, s, n) ==
  LET r == IF t.parent[s] # 0
           THEN IF n = 0 THEN Ro("PARENT_ROW", t.parent[s])
                ELSE row_children(t, s, n, 1, 1)
           ELSE row_children(t, s, n, 1, 0)
  IN IF r.type = "ROW_CNT"
     THEN Ro("ROW_CNT", Len(t.children[s]) + IF t.parent[s] # 0 THEN 1 ELSE 0)
     ELSE r

row(t, s, n) ==
  IF t.parent[s] # 0
  THEN IF n = 0 THEN Ro("PARENT_ROW", t.parent[s])
       ELSE row_children(t, s, n, 1, 1)
  ELSE row_children(t, s, n, 1, 0)


---------------------------------------------------------------------------
(* The settings store and the typed conversions of the setting types.      *)
(* A stored value is [str, num]: the bytes of a "string" setting or the     *)
(* number of an "int" setting.  store[s][d] is <<>> (absent) or <<value>>.  *)

Chars == {"1", "x"}
TextsUpTo(k) == UNION {[1..m -> Chars] : m \in 0..k}
Texts == TextsUpTo(MaxLen)

Digits == <<"0", "1", "2", "3", "4", "5", "6", "7", "8", "9">>
CharVal(c) == IF \E i \in 1..10 : Digits[i] = c
              THEN (CHOOSE i \in 1..10 : Digits[i] = c) - 1
              ELSE 33

\* strtoul ( value, &endp, 0 ) followed by the test of *endp
strtoul(text) ==
  LET octal == Len(text) >= 1 /\ text[1] = "0"
      hex   == octal /\ Len(text) >= 2 /\ text[2] = "x"
      base  == IF hex THEN 16 ELSE IF octal THEN 8 ELSE 10
      first == IF hex THEN 3 ELSE IF octal THEN 2 ELSE 1
      RECURSIVE scan(_, _)
      scan(i, acc) ==
        IF i > Len(text) THEN [ok |-> TRUE, val |-> acc]
        ELSE IF CharVal(text[i]) >= base THEN [ok |-> FALSE, val |-> acc]
             ELSE scan(i + 1, (acc * base + CharVal(text[i])))
  IN scan(first, 0)

RECURSIVE FormatInt(_)
FormatInt(n) == IF n < 10 THEN <<Digits[n + 1]>>
                ELSE FormatInt(n \div 10) \o <<Digits[(n % 10) + 1]>>

StrVal(text) == [str |-> text, num |-> 0]
NumVal(n) == [str |-> <<>>, num |-> n]

\* the block behind scope 3 has no room left: it refuses to store a value
\* (deleting one needs no room)
Storable(s) == s # 3

\* storef_setting(): 0 and the new store, or an error code and the old store
storef_setting(st, s, d, text) ==
  IF ~Storable(s) THEN [rc |-> 1, store |-> st]
  ELSE IF Registry[d].type = "int"
       THEN LET r == strtoul(text)
            IN IF r.ok
               THEN [rc |-> 0,
                     store |-> [st EXCEPT ![s][d] = <<NumVal(r.val)>>]]
               ELSE [rc |-> 22, store |-> st]
       ELSE [rc |-> 0,
             store |-> [st EXCEPT ![s][d] =
                          IF text = <<>> THEN <<>> ELSE <<StrVal(text)>>]]

\* delete_setting()
delete_setting(st, s, d) == [st EXCEPT ![s][d] = <<>>]

\* fetch_setting_ex ( settings, setting, NULL, 0, 0 ): this block only
fetch_setting_ex(st, s, d) == st[s][d]

\* fetch_setting(): this block, else the first child block (recursively)
\* that holds a value
RECURSIVE fetch_setting(_, _, _, _)
fetch_setting(t, st, s, d) ==
  IF st[s][d] # <<>> THEN st[s][d]
  ELSE LET ch == t.children[s]
           RECURSIVE scan(_)
           scan(i) == IF i > Len(ch) THEN <<>>
                      ELSE LET r == fetch_setting(t, st, ch[i], d)
                           IN IF r # <<>> THEN r ELSE scan(i + 1)
       IN scan(1)

\* fetchf_setting() into a buffer holding "": the formatted value, and ""
\* when the fetch fails
fetchf_setting(t, st, s, d) ==
  LET r == fetch_setting(t, st, s, d)
  IN IF r = <<>> THEN <<>>
     ELSE IF Registry[d].type = "int" THEN FormatInt(r[1].num)
          ELSE r[1].str

\* The store at the start of a session
InitStore ==
  [s \in MainScopes |->
     [d \in SettingIds |->
        CASE s = 3 /\ d = 1 -> <<StrVal(<<"1">>)>>
          [] s = 3 /\ d = 2 -> <<StrVal(<<"x">>)>>
          [] s = 2 /\ d = 3 -> <<NumVal(1)>>
          [] OTHER -> <<>>]]

---------------------------------------------------------------------------
(* scriptlet_exec(): find the "scriptlet" setting and execute its lines.    *)
(* The buffer script[] is a sequence of characters, NUL the terminator; a   *)
(* pointer into it is its offset from script.                               *)

NUL == "NUL"
ScriptChars == {"\\", "n", "a"}
Scripts == UNION {[1..m -> ScriptChars] : m \in 0..ScriptMax}

\* sizeof ( script ), for a store whose longest value is ScriptMax
sizeof_script == ScriptMax + 1

NotRunning ==
  [pc |-> "none", script |-> <<>>, line |-> 0, from |-> 0, to |-> 0,
   cmds |-> <<>>, lastw |-> -1]

\* the string that starts at offset off of the buffer, "?" where it runs
\* past the end of the buffer
RECURSIVE CStr(_, _)
CStr(buf, off) ==
  IF off >= sizeof_script THEN <<"?">>
  ELSE IF buf[off + 1] = NUL THEN <<>>
       ELSE <<buf[off + 1]>> \o CStr(buf, off + 1)

\* fetch_setting ( NULL, &scriptlet_setting, script, sizeof ( script ) ):
\* the length of the value found from the root of the tree down, or -1, and
\* the buffer: cleared, then the bytes of the value
scriptlet_fetch(t, st) ==
  LET r == fetch_setting(t, st, 1, 1)
  IN IF r = <<>>
     THEN [len |-> -1, script |-> [i \in 1..sizeof_script |-> NUL]]
     ELSE [len |-> Len(r[1].str),
           script |-> [i \in 1..sizeof_script |->
                         IF i <= Len(r[1].str) THEN r[1].str[i] ELSE NUL]]

\* the start of scriptlet_exec(): return when no scriptlet is found, else
\* line = from = to = script
scriptlet_start(x, t, st) ==
  LET f == scriptlet_fetch(t, st)
  IN IF 0 >= f.len
     THEN [x EXCEPT !.pc = "return", !.script = f.script]
     ELSE [x EXCEPT !.pc = "loop", !.script = f.script,
                    !.line = 0, !.from = 0, !.to = 0]

\* *to++ = c
Put(x, c) ==
  [x EXCEPT !.script[x.to + 1] = c, !.to = x.to + 1, !.lastw = x.to]

\* system ( line )
System(x) == [x EXCEPT !.cmds = Append(x.cmds, CStr(x.script, x.line))]

\* the loop without the test for a backslash at the end of the script
scriptlet_loop_no_end_test(x) ==
  LET c == x.script[x.from + 1]
  IN IF c = NUL THEN [x EXCEPT !.pc = "last"]
     ELSE IF c = "\\"
          THEN IF x.script[x.from + 2] = "n"
               THEN LET y == System(Put([x EXCEPT !.from = x.from + 2], NUL))
                    IN [y EXCEPT !.line = y.to]
               ELSE Put([x EXCEPT !.from = x.from + 2], x.script[x.from + 2])
          ELSE Put([x EXCEPT !.from = x.from + 1], c)

\* the loop with a backslash copied along with the character after it
scriptlet_loop_keep_backslash(x) ==
  LET c == x.script[x.from + 1]
  IN IF c = NUL THEN [x EXCEPT !.pc = "last"]
     ELSE IF c = "\\" /\ x.script[x.from + 2] = NUL
          THEN [x EXCEPT !.from = x.from + 1, !.pc = "last"]
          ELSE IF c = "\\" /\ x.script[x.from + 2] = "n"
               THEN LET y == System(Put([x EXCEPT !.from = x.from + 2], NUL))
                    IN [y EXCEPT !.line = y.to]
               ELSE Put([x EXCEPT !.from = x.from + 1], c)

\* one test of while ( *from ) and one pass through its body
scriptlet_loop(x) ==
  LET c == x.script[x.from + 1]
  IN IF c = NUL THEN [x EXCEPT !.pc = "last"]
     ELSE IF c = "\\"
          THEN LET c1 == x.script[x.from + 2]
               IN IF c1 = NUL
                  THEN [x EXCEPT !.from = x.from + 1, !.pc = "last"]
                  ELSE IF c1 = "n"
                       THEN LET y == System(Put([x EXCEPT !.from = x.from + 2],
                                                NUL))
                            IN [y EXCEPT !.line = y.to]
                       ELSE Put([x EXCEPT !.from = x.from + 2], c1)
          ELSE Put([x EXCEPT !.from = x.from + 1], c)

\* after the loop: *to++ = 0; system ( line ); return
scriptlet_last(x) == [System(Put(x, NUL)) EXCEPT !.pc = "return"]

---------------------------------------------------------------------------
(* Reads through a pointer that is not one.  A ROW_CNT row object holds a   *)
(* count in the union where the code reads a pointer to a setting or to a   *)
(* settings block: what such a read yields is not defined.  `ub` is the     *)
(* outcome: control is lost, or some text ends up in the buffer.            *)

NoUB == [wild |-> FALSE, text |-> <<>>]
UBs == {[wild |-> TRUE, text |-> <<>>]} \cup
       {[wild |-> FALSE, text |-> x] : x \in Texts}

---------------------------------------------------------------------------
(* The setting widget *)

\* memset ( widget, 0, sizeof ( *widget ) ): PARENT_ROW is enumerator 0
ZeroWidget ==
  [settings |-> 0, total_rows |-> 0, first_visible |-> 0,
   ro |-> Ro("PARENT_ROW", 0), row |-> 0, col |-> 0, editing |-> 0,
   value |-> <<>>]

load_setting(w, t, st, ub) ==
  [w EXCEPT
     !.editing = 0,
     !.value =
       CASE w.ro.type = "PARENT_ROW" ->
              IF t.name[w.ro.u] # "" THEN <<t.name[w.ro.u]>> ELSE <<"<root>">>
         [] w.ro.type = "CHILD_ROW" -> <<t.name[w.ro.u]>>
         [] w.ro.type = "SETTING_ROW" ->
              fetchf_setting(t, st, w.settings, w.ro.u)
         [] OTHER -> ub.text]

\* save_setting(): storef_setting() of the buffer for the selected setting
save_setting(w, st) == storef_setting(st, w.settings, w.ro.u, w.value)

\* select_setting() without the load_setting() call
select_setting_no_load(w, t, st, index, ub) ==
  [w EXCEPT !.ro = row(t, w.settings, index),
            !.row = (SETTINGS_LIST_ROW + index - w.first_visible),
            !.col = SETTINGS_LIST_COL,
            !.editing = 0,
            !.value = <<>>]

select_setting(w, t, st, index, ub) ==
  load_setting(
    [w EXCEPT !.ro = row(t, w.settings, index),
              !.row = (SETTINGS_LIST_ROW + index - w.first_visible),
              !.col = SETTINGS_LIST_COL,
              !.editing = 0,
              !.value = <<>>],
    t, st, ub)

---------------------------------------------------------------------------
(* reveal(): scroll the list so that row n is on screen.  The result holds  *)
(* the widget, the values first_visible took, whether the frame was        *)
(* redrawn, the markers on screen and the number of load_setting() calls.  *)

\* the on-screen test with a signed comparison
OnScreen_signed(fv, n) == n - fv < SETTINGS_LIST_ROWS

OnScreen(fv, n) == ULt(n - fv, SETTINGS_LIST_ROWS)

\* scrolling down by single rows instead of pages
RECURSIVE fv_up_by_row(_, _)
fv_up_by_row(fv, n) ==
  IF ULt(fv, n) THEN <<fv + 1>> \o fv_up_by_row(fv + 1, n) ELSE <<>>

\* while ( widget->first_visible < n ) widget->first_visible += ROWS
RECURSIVE fv_up(_, _)
fv_up(fv, n) ==
  IF ULt(fv, n) THEN <<(fv + SETTINGS_LIST_ROWS)>>
                 \o fv_up((fv + SETTINGS_LIST_ROWS), n)
  ELSE <<>>

\* scrolling up by one page at most
fv_down_once(fv, n) ==
  IF ULt(n, fv) THEN <<(fv - SETTINGS_LIST_ROWS)>> ELSE <<>>

\* while ( widget->first_visible > n ) widget->first_visible -= ROWS
RECURSIVE fv_down(_, _)
fv_down(fv, n) ==
  IF ULt(n, fv) THEN <<(fv - SETTINGS_LIST_ROWS)>>
                 \o fv_down((fv - SETTINGS_LIST_ROWS), n)
  ELSE <<>>

LastOr(seq, x) == IF seq = <<>> THEN x ELSE seq[Len(seq)]

\* the marker below drawn whenever the list has a row past first_visible
draw_ellipses_whole_list(fv, total_rows) ==
  [top |-> ULt(0, fv), bottom |-> ULt(fv, total_rows)]

\* the two mvaddstr() calls of reveal(): "..." or "   " above and below
draw_ellipses(fv, total_rows) ==
  [top |-> ULt(0, fv),
   bottom |-> ULt(fv + SETTINGS_LIST_ROWS, total_rows)]

reveal(w, t, st, n, ub, ell) ==
  IF OnScreen(w.first_visible, n)
  THEN [w |-> w, trace |-> <<>>, frames |-> 0, ell |-> ell, loads |-> 0]
  ELSE LET up   == fv_up(w.first_visible, n)
           fv1  == LastOr(up, w.first_visible)
           down == fv_down(fv1, n)
           fv2  == LastOr(down, fv1)
           vis  == Cardinality({i \in 0..(SETTINGS_LIST_ROWS - 1) :
                                  ULt(fv2 + i, w.total_rows)})
       IN [w |-> select_setting([w EXCEPT !.first_visible = fv2],
                                t, st, n, ub),
           trace |-> up \o down,
           frames |-> 1,
           ell |-> draw_ellipses(fv2, w.total_rows),
           loads |-> vis + 1]

\* init_widget(): the widget of a fresh main_loop() on scope s
init_widget(s, t, st, ub, ell) ==
  LET w0 == [ZeroWidget EXCEPT !.settings = s,
                               !.total_rows = row(t, s, UINT_MAX).u,
                               !.first_visible = SETTINGS_LIST_ROWS]
      r  == reveal(w0, t, st, 0, ub, ell)
  IN [r EXCEPT !.trace = <<0, SETTINGS_LIST_ROWS>> \o r.trace]

---------------------------------------------------------------------------
(* Drawing the selected row: the attribute of draw_setting() and the line  *)
(* of draw_comment_row()                                                    *)

\* bold decided by the lookup that also finds a value of a child scope
draw_setting_bold_if_any_value(w, t, st) ==
  IF w.ro.type = "SETTING_ROW"
  THEN fetch_setting(t, st, w.settings, w.ro.u) # <<>>
  ELSE TRUE

\* draw_setting(): is the row printed in bold
draw_setting(w, t, st) ==
  IF w.ro.type = "SETTING_ROW"
  THEN fetch_setting_ex(st, w.settings, w.ro.u) # <<>>
  ELSE TRUE

\* draw_comment_row(): is "[inherited from child scope]" printed
draw_comment_row(w, t, st) ==
  /\ w.ro.type = "SETTING_ROW"
  /\ fetch_setting(t, st, w.settings, w.ro.u) # <<>>
  /\ fetch_setting_ex(st, w.settings, w.ro.u) = <<>>

\* the top of main_loop()'s loop: draw_comment_row(), draw_setting()
Redraw(w, t, st) ==
  [bold |-> draw_setting(w, t, st), inherited |-> draw_comment_row(w, t, st)]

NotDrawn == [bold |-> FALSE, inherited |-> FALSE]

---------------------------------------------------------------------------
(* The line editor.  The cursor stays at the end of the text: the keys of   *)
(* the model move it nowhere else.                                          *)

Keys == {"KEY_DOWN", "KEY_UP", "CTRL_D", "CTRL_X", "CR", "LF", "CTRL_C",
         "BACKSPACE"} \cup Chars
ConfirmKeys == {"CR", "LF"}
OtherKeys == {"CTRL_C", "BACKSPACE"} \cup Chars

\* edit_editbox(): the text after the key, and the key handed back to the
\* caller ("NONE", the code's 0, when the editor consumed it)
edit_editbox(text, k) ==
  CASE k \in Chars ->
         [text |-> IF Len(text) < MaxLen THEN Append(text, k) ELSE text,
          key |-> "NONE"]
    [] k = "BACKSPACE" ->
         [text |-> IF text = <<>> THEN text
                   ELSE SubSeq(text, 1, Len(text) - 1),
          key |-> "NONE"]
    [] k = "CTRL_D" -> [text |-> text, key |-> "NONE"]
    [] OTHER -> [text |-> text, key |-> k]

\* edit_setting() without setting the editing flag
edit_setting_no_flag(w, k) ==
  LET e == edit_editbox(w.value, k)
  IN [w |-> [w EXCEPT !.value = e.text], key |-> e.key]

\* edit_setting(): the widget, and the key returned to the application
edit_setting(w, k) ==
  LET e == edit_editbox(w.value, k)
  IN [w |-> [w EXCEPT !.editing = 1, !.value = e.text], key |-> e.key]

---------------------------------------------------------------------------
(* main_loop(): what one key does.  The result is the state in which the    *)
(* navigator next blocks in getkey(), or in which it has returned.          *)

Res(p, w, cur, st, al, cl, ld, tr, fr, ell) ==
  [pc |-> p, widget |-> w, current |-> cur, store |-> st, alert |-> al,
   calls |-> cl, loads |-> ld, fvTrace |-> tr, frames |-> fr,
   ellipsis |-> ell]

NoAlert == <<>>
ReadOnlyAlert == <<"read only">>
CouldNotSet(d) == <<"Could not set", Registry[d].name>>

Call(op, s, d, text, rc) ==
  [op |-> op, scope |-> s, setting |-> d, text |-> text, rc |-> rc]

\* the program counter after a select_setting() that left `w`
PcAfter(w, ub) == IF w.ro.type = "ROW_CNT" /\ ub.wild THEN "wild" ELSE "getkey"

\* settings_ui() -> main_loop ( s ): draw_title_row(), init_widget()
main_loop_enter(s, t, st, ub, ell) ==
  LET r == init_widget(s, t, st, ub, ell)
  IN Res(PcAfter(r.w, ub), r.w, 0, st, NoAlert, <<>>, r.loads, r.trace,
         r.frames, r.ell)

\* a move that leaves select_setting ( next ) to reveal()
main_loop_moved_no_select(r, next, t, st, ub) ==
  Res(PcAfter(r.w, ub), r.w, next, st, NoAlert, <<>>, r.loads, r.trace,
      r.frames, r.ell)

\* if ( next != current ) { draw_setting(); select_setting ( next ); ... }
\* after reveal() returned r
main_loop_moved(r, next, t, st, ub) ==
  LET w2 == select_setting(r.w, t, st, next, ub)
  IN Res(PcAfter(w2, ub), w2, next, st, NoAlert, <<>>, r.loads + 1, r.trace,
         r.frames, r.ell)

main_loop_stay(w, cur, st, al, ell) ==
  Res("getkey", w, cur, st, al, <<>>, 0, <<>>, 0, ell)

\* case KEY_DOWN
main_loop_down(w, cur, st, t, ub, ell) ==
  IF ULt(cur, w.total_rows - 1)
  THEN main_loop_moved(reveal(w, t, st, (cur + 1), ub, ell),
                       (cur + 1), t, st, ub)
  ELSE main_loop_stay(w, cur, st, NoAlert, ell)

\* case KEY_UP
main_loop_up(w, cur, st, t, ub, ell) ==
  IF ULt(0, cur)
  THEN main_loop_moved(reveal(w, t, st, (cur - 1), ub, ell),
                       (cur - 1), t, st, ub)
  ELSE main_loop_stay(w, cur, st, NoAlert, ell)

\* CTRL_D without the select_setting() that reloads the value
main_loop_ctrl_d_no_reload(w, cur, st, t, ub, ell) ==
  IF w.ro.type = "SETTING_ROW"
  THEN Res("getkey", w, cur, delete_setting(st, w.settings, w.ro.u), NoAlert,
           <<Call("delete", w.settings, w.ro.u, <<>>, 0)>>, 0, <<>>, 0, ell)
  ELSE Res("getkey", w, cur, st, ReadOnlyAlert, <<>>, 0, <<>>, 0, ell)

\* CTRL_D with the row count taken down by one after the delete
main_loop_ctrl_d_recount(w, cur, st, t, ub, ell) ==
  IF w.ro.type = "SETTING_ROW"
  THEN LET st2 == delete_setting(st, w.settings, w.ro.u)
           w2  == select_setting([w EXCEPT !.total_rows = w.total_rows - 1],
                                 t, st2, cur, ub)
       IN Res("getkey", w2, cur, st2, NoAlert,
              <<Call("delete", w.settings, w.ro.u, <<>>, 0)>>, 1, <<>>, 0, ell)
  ELSE main_loop_stay(w, cur, st, ReadOnlyAlert, ell)

\* case CTRL_D
main_loop_ctrl_d(w, cur, st, t, ub, ell) ==
  IF w.ro.type = "SETTING_ROW"
  THEN LET st2 == delete_setting(st, w.settings, w.ro.u)
           w2  == select_setting(w, t, st2, cur, ub)
       IN Res("getkey", w2, cur, st2, NoAlert,
              <<Call("delete", w.settings, w.ro.u, <<>>, 0)>>, 1, <<>>, 0, ell)
  ELSE main_loop_stay(w, cur, st, ReadOnlyAlert, ell)

\* case CTRL_X: return 0, and settings_ui() leaves its loop
main_loop_ctrl_x(w, cur, st, ell) ==
  Res("done", w, cur, st, NoAlert, <<>>, 0, <<>>, 0, ell)

\* the default case without the TAG_READONLY test
main_loop_default_no_readonly_test(w, cur, st, k, ell) ==
  IF w.ro.type = "SETTING_ROW"
  THEN Res("getkey", edit_setting(w, k).w, cur, st, NoAlert, <<>>, 0,
           <<>>, 0, ell)
  ELSE Res("getkey", w, cur, st, ReadOnlyAlert, <<>>, 0, <<>>, 0, ell)

\* the default case with neither test: edit_setting() on whatever row
main_loop_default_edits_every_row(w, cur, st, k, ell) ==
  Res("getkey", edit_setting(w, k).w, cur, st, NoAlert, <<>>, 0, <<>>, 0, ell)

\* default: edit_setting() on an editable setting, else the alert
main_loop_default(w, cur, st, k, ell) ==
  IF w.ro.type = "SETTING_ROW" /\ ~TAG_READONLY(w.ro.u)
  THEN Res("getkey", edit_setting(w, k).w, cur, st, NoAlert, <<>>, 0,
           <<>>, 0, ell)
  ELSE main_loop_stay(w, cur, st, ReadOnlyAlert, ell)

\* CR, LF handled as in the variant without Parent/Child rows
main_loop_cr_flat(w, cur, st, t, k, ub, ell) ==
  main_loop_default(w, cur, st, k, ell)

\* CR, LF on a Setting row storing the buffer at once
main_loop_cr_commits_at_once(w, cur, st, t, k, ub, ell) ==
  IF w.ro.type = "SETTING_ROW"
  THEN LET sv == save_setting(w, st)
       IN Res("getkey", load_setting(w, t, sv.store, NoUB), cur, sv.store,
              IF sv.rc # 0 THEN CouldNotSet(w.ro.u) ELSE NoAlert,
              <<Call("storef", w.settings, w.ro.u, w.value, sv.rc)>>, 1,
              <<>>, 0, ell)
  ELSE IF w.ro.type = "ROW_CNT"
       THEN IF w.ro.u = 0 /\ ~ub.wild
            THEN Res("done", w, cur, st, NoAlert, <<>>, 0, <<>>, 0, ell)
            ELSE Res("wild", w, cur, st, NoAlert, <<>>, 0, <<>>, 0, ell)
       ELSE main_loop_enter(w.ro.u, t, st, NoUB, ell)

\* CR, LF on a Parent row leading to the root of the tree
main_loop_cr_to_root(w, cur, st, t, k, ub, ell) ==
  LET RECURSIVE Root(_)
      Root(s) == IF t.parent[s] = 0 THEN s ELSE Root(t.parent[s])
  IN IF w.ro.type = "SETTING_ROW" THEN main_loop_default(w, cur, st, k, ell)
     ELSE IF w.ro.type = "ROW_CNT"
          THEN IF w.ro.u = 0 /\ ~ub.wild
               THEN Res("done", w, cur, st, NoAlert, <<>>, 0, <<>>, 0, ell)
               ELSE Res("wild", w, cur, st, NoAlert, <<>>, 0, <<>>, 0, ell)
          ELSE main_loop_enter(IF w.ro.type = "PARENT_ROW" THEN Root(w.ro.u)
                               ELSE w.ro.u, t, st, NoUB, ell)

\* case CR, LF: return widget.ro.u.child unless a setting row is selected.
\* The union member read is the parent or child of a PARENT_ROW or
\* CHILD_ROW, and the count of a ROW_CNT: 0 as a pointer where a pointer is
\* as wide as the count, the count below indeterminate bytes where wider.
main_loop_cr(w, cur, st, t, k, ub, ell) ==
  IF w.ro.type = "SETTING_ROW" THEN main_loop_default(w, cur, st, k, ell)
  ELSE IF w.ro.type = "ROW_CNT"
       THEN IF w.ro.u = 0 /\ ~ub.wild
            THEN Res("done", w, cur, st, NoAlert, <<>>, 0, <<>>, 0, ell)
            ELSE Res("wild", w, cur, st, NoAlert, <<>>, 0, <<>>, 0, ell)
       ELSE main_loop_enter(w.ro.u, t, st, NoUB, ell)

\* the commit with a break after the alert instead of the fall through
main_loop_commit_no_fall_through(w, cur, st, t, ell) ==
  LET sv == save_setting(w, st)
  IN IF sv.rc # 0
     THEN Res("getkey", w, cur, sv.store, CouldNotSet(w.ro.u),
              <<Call("storef", w.settings, w.ro.u, w.value, sv.rc)>>, 0,
              <<>>, 0, ell)
     ELSE Res("getkey", load_setting(w, t, sv.store, NoUB), cur, sv.store,
              NoAlert,
              <<Call("storef", w.settings, w.ro.u, w.value, sv.rc)>>, 1,
              <<>>, 0, ell)

\* the commit with a break after a successful save_setting()
main_loop_commit_no_reload(w, cur, st, t, ell) ==
  LET sv == save_setting(w, st)
  IN IF sv.rc = 0
     THEN Res("getkey", w, cur, sv.store, NoAlert,
              <<Call("storef", w.settings, w.ro.u, w.value, sv.rc)>>, 0,
              <<>>, 0, ell)
     ELSE Res("getkey", load_setting(w, t, sv.store, NoUB), cur, sv.store,
              CouldNotSet(w.ro.u),
              <<Call("storef", w.settings, w.ro.u, w.value, sv.rc)>>, 1,
              <<>>, 0, ell)

\* editing, case CR, LF: save_setting(), the alert on failure, and the
\* fall through to load_setting()
main_loop_commit(w, cur, st, t, ell) ==
  LET sv == save_setting(w, st)
  IN Res("getkey", load_setting(w, t, sv.store, NoUB), cur, sv.store,
         IF sv.rc # 0 THEN CouldNotSet(w.ro.u) ELSE NoAlert,
         <<Call("storef", w.settings, w.ro.u, w.value, sv.rc)>>, 1, <<>>, 0,
         ell)

\* CTRL_C leaving the edit without reading the value back
main_loop_cancel_keep_buffer(w, cur, st, t, ell) ==
  Res("getkey", [w EXCEPT !.editing = 0], cur, st, NoAlert, <<>>, 1,
      <<>>, 0, ell)

\* editing, case CTRL_C
main_loop_cancel(w, cur, st, t, ell) ==
  Res("getkey", load_setting(w, t, st, NoUB), cur, st, NoAlert, <<>>, 1,
      <<>>, 0, ell)

\* the editing branch with CTRL_X ending the session
main_loop_editing_exit_key(w, cur, st, t, k, ell) ==
  LET e == edit_setting(w, k)
  IN CASE e.key \in ConfirmKeys -> main_loop_commit(e.w, cur, st, t, ell)
       [] e.key = "CTRL_C" -> main_loop_cancel(e.w, cur, st, t, ell)
       [] e.key = "CTRL_X" ->
            Res("done", e.w, cur, st, NoAlert, <<>>, 0, <<>>, 0, ell)
       [] OTHER -> Res("getkey", e.w, cur, st, NoAlert, <<>>, 0, <<>>, 0, ell)

\* if ( widget.editing ): edit_setting(), then the switch on its result
main_loop_editing(w, cur, st, t, k, ell) ==
  LET e == edit_setting(w, k)
  IN CASE e.key \in ConfirmKeys -> main_loop_commit(e.w, cur, st, t, ell)
       [] e.key = "CTRL_C" -> main_loop_cancel(e.w, cur, st, t, ell)
       [] OTHER -> Res("getkey", e.w, cur, st, NoAlert, <<>>, 0, <<>>, 0, ell)

\* main_loop(): the key getkey() returned, handled in the state w, cur, st
main_loop(w, cur, st, t, k, ub, ell) ==
  IF w.editing # 0 THEN main_loop_editing(w, cur, st, t, k, ell)
  ELSE CASE k = "KEY_DOWN" -> main_loop_down(w, cur, st, t, ub, ell)
         [] k = "KEY_UP" -> main_loop_up(w, cur, st, t, ub, ell)
         [] k = "CTRL_D" -> main_loop_ctrl_d(w, cur, st, t, ub, ell)
         [] k = "CTRL_X" -> main_loop_ctrl_x(w, cur, st, ell)
         [] k \in ConfirmKeys -> main_loop_cr(w, cur, st, t, k, ub, ell)
         [] OTHER -> main_loop_default(w, cur, st, k, ell)

---------------------------------------------------------------------------
(* The variant without Parent and Child rows (src/hci/tui/settings_ui.c).   *)
(* Its relevant(), edit_setting(), the scrolling loops of reveal() and the  *)
(* store interface are those of the tree-navigating variant.                *)

\* What relevant_setting() returns: a pointer to the table entry d, or the
\* count cast to a pointer.
SettingPtr(d) == [ptr |-> TRUE, v |-> d]
CountPtr(cnt) == [ptr |-> FALSE, v |-> cnt]

\* for_each_table_entry ( setting, SETTINGS ) of relevant_setting()
RECURSIVE relevant_setting_from(_, _, _, _, _)
relevant_setting_from(t, s, n, d, cnt) ==
  IF d > NUM_SETTINGS THEN CountPtr(cnt)
  ELSE IF relevant(t, s, d)
       THEN IF cnt = n THEN SettingPtr(d)
            ELSE relevant_setting_from(t, s, n, d + 1, (cnt + 1))
       ELSE relevant_setting_from(t, s, n, d + 1, cnt)

relevant_setting(t, s, n) == relevant_setting_from(t, s, n, 1, 0)

relevant_setting_cnt(t, s) == relevant_setting(t, s, UINT_MAX).v

\* memset ( widget, 0, sizeof ( *widget ) )
ZeroFlatWidget ==
  [settings |-> 0, total_rows |-> 0, first_visible |-> 0,
   setting |-> CountPtr(0), row |-> 0, col |-> 0, editing |-> 0,
   value |-> <<>>]

\* load_setting(); a count taken for a pointer to a setting is read
\* through with the outcome ub
flat_load_setting(w, t, st, ub) ==
  [w EXCEPT
     !.editing = 0,
     !.value = IF w.setting.ptr
               THEN fetchf_setting(t, st, w.settings, w.setting.v)
               ELSE ub.text]

flat_save_setting(w, st) ==
  storef_setting(st, w.settings, w.setting.v, w.value)

flat_select_setting(w, t, st, index, ub) ==
  flat_load_setting(
    [w EXCEPT !.setting = relevant_setting(t, w.settings, index),
              !.row = (SETTINGS_LIST_ROW + index - w.first_visible),
              !.col = SETTINGS_LIST_COL,
              !.editing = 0,
              !.value = <<>>],
    t, st, ub)

flat_reveal(w, t, st, n, ub) ==
  IF OnScreen(w.first_visible, n) THEN w
  ELSE LET fv1 == LastOr(fv_up(w.first_visible, n), w.first_visible)
           fv2 == LastOr(fv_down(fv1, n), fv1)
       IN flat_select_setting([w EXCEPT !.first_visible = fv2], t, st, n, ub)

flat_init_widget(s, t, st, ub) ==
  flat_reveal([ZeroFlatWidget EXCEPT
                 !.settings = s,
                 !.total_rows = relevant_setting_cnt(t, s),
                 !.first_visible = SETTINGS_LIST_ROWS],
              t, st, 0, ub)

FlatRes(p, w, cur, st) ==
  [pc |-> p, widget |-> w, current |-> cur, store |-> st]

\* no session of this variant
NotFlat == FlatRes("idle", ZeroFlatWidget, 0, <<>>)

\* the program counter after a select_setting() that left `w`
FlatPc(w, ub) == IF ~w.setting.ptr /\ ub.wild THEN "wild" ELSE "getkey"

\* main_loop ( settings ) up to the first getkey()
flat_main_loop_enter(s, t, st, ub) ==
  LET w == flat_init_widget(s, t, st, ub)
  IN FlatRes(FlatPc(w, ub), w, 0, st)

\* if ( next != current ) { draw_setting(); select_setting ( next ); ... }
flat_main_loop_moved(w, next, t, st, ub) ==
  LET w2 == flat_select_setting(w, t, st, next, ub)
  IN FlatRes(FlatPc(w2, ub), w2, next, st)

\* the editing branch of main_loop(); save_setting() through a count taken
\* for a pointer loses control or stores nothing
flat_main_loop_editing(w, cur, st, t, k, ub) ==
  LET e == edit_setting(w, k)
  IN CASE e.key \in ConfirmKeys ->
            IF e.w.setting.ptr
            THEN LET sv == flat_save_setting(e.w, st)
                 IN FlatRes("getkey", flat_load_setting(e.w, t, sv.store, ub),
                            cur, sv.store)
            ELSE FlatRes(FlatPc(e.w, ub), flat_load_setting(e.w, t, st, ub),
                         cur, st)
       [] e.key = "CTRL_C" ->
            FlatRes(FlatPc(e.w, ub), flat_load_setting(e.w, t, st, ub),
                    cur, st)
       [] OTHER -> FlatRes("getkey", e.w, cur, st)

\* main_loop(): the key getkey() returned, handled in the state f;
\* delete_setting() through a count taken for a pointer loses control or
\* deletes nothing
flat_main_loop(f, t, k, ub) ==
  LET w   == f.widget
      cur == f.current
      st  == f.store
  IN IF w.editing # 0 THEN flat_main_loop_editing(w, cur, st, t, k, ub)
     ELSE CASE k = "KEY_DOWN" ->
                 IF ULt(cur, w.total_rows - 1)
                 THEN flat_main_loop_moved(
                        flat_reveal(w, t, st, (cur + 1), ub),
                        (cur + 1), t, st, ub)
                 ELSE FlatRes("getkey", w, cur, st)
            [] k = "KEY_UP" ->
                 IF ULt(0, cur)
                 THEN flat_main_loop_moved(
                        flat_reveal(w, t, st, (cur - 1), ub),
                        (cur - 1), t, st, ub)
                 ELSE FlatRes("getkey", w, cur, st)
            [] k = "CTRL_D" ->
                 LET st2 == IF w.setting.ptr
                            THEN delete_setting(st, w.settings, w.setting.v)
                            ELSE st
                     w2  == flat_select_setting(w, t, st2, cur, ub)
                 IN FlatRes(FlatPc(w2, ub), w2, cur, st2)
            [] k = "CTRL_X" -> FlatRes("done", w, cur, st)
            [] OTHER -> FlatRes("getkey", edit_setting(w, k).w, cur, st)

---------------------------------------------------------------------------
(* The navigator sessions *)

LastTwo(seq) == IF Len(seq) > 2 THEN Tail(seq) ELSE seq

Session(k, r) ==
  /\ key' = k
  /\ pc' = r.pc
  /\ widget' = r.widget
  /\ current' = r.current
  /\ store' = r.store
  /\ alert' = r.alert
  /\ calls' = r.calls
  /\ loads' = r.loads
  /\ fvTrace' = r.fvTrace
  /\ frames' = r.frames
  /\ ellipsis' = r.ellipsis
  /\ shown' = IF r.pc = "getkey" THEN Redraw(r.widget, tree, r.store)
              ELSE shown
  /\ trail' = IF r.pc = "getkey" /\ r.widget.settings # widget.settings
              THEN LastTwo(Append(trail, widget.settings))
              ELSE <<>>

Apply(k, r) ==
  /\ Session(k, r)
  /\ UNCHANGED <<tree, flat, qscope, qrows, rn, exec>>

Blank == [top |-> FALSE, bottom |-> FALSE]

\* the outcomes of the undefined reads that the scope of w can lead to
UBsOf(t, s) == IF row(t, s, 0).type = "ROW_CNT" THEN UBs ELSE {NoUB}

Viewing == pc = "getkey" /\ widget.editing = 0
Editing == pc = "getkey" /\ widget.editing # 0

\* settings_ui ( s ) up to the first getkey()
Init ==
  /\ tree = MainTree
  /\ qscope = 0
  /\ qrows = <<>>
  /\ rn = 0
  /\ exec = NotRunning
  /\ store = InitStore
  /\ key = "NONE"
  /\ \E s \in MainScopes : \E ub \in UBsOf(MainTree, s) :
       LET r == main_loop_enter(s, MainTree, InitStore, ub, Blank)
       IN /\ pc = r.pc
          /\ widget = r.widget
          /\ current = r.current
          /\ alert = r.alert
          /\ calls = r.calls
          /\ loads = r.loads
          /\ fvTrace = r.fvTrace
          /\ frames = r.frames
          /\ ellipsis = r.ellipsis
          /\ shown = IF r.pc = "getkey"
                     THEN Redraw(r.widget, MainTree, InitStore)
                     ELSE NotDrawn
          /\ trail = <<>>
  /\ flat = NotFlat

ViewDown ==
  /\ Viewing
  /\ widget.total_rows = 0 => current < MaxCur
  /\ \E ub \in UBsOf(tree, widget.settings) :
       Apply("KEY_DOWN", main_loop_down(widget, current, store, tree, ub, ellipsis))

ViewUp ==
  /\ Viewing
  /\ \E ub \in UBsOf(tree, widget.settings) :
       Apply("KEY_UP", main_loop_up(widget, current, store, tree, ub, ellipsis))

ViewDelete ==
  /\ Viewing
  /\ Apply("CTRL_D", main_loop_ctrl_d(widget, current, store, tree, NoUB, ellipsis))

ViewExit ==
  /\ Viewing
  /\ Apply("CTRL_X", main_loop_ctrl_x(widget, current, store, ellipsis))

ViewConfirm ==
  /\ Viewing
  /\ \E k \in ConfirmKeys : \E ub \in UBsOf(tree, widget.settings) :
       Apply(k, main_loop_cr(widget, current, store, tree, k, ub, ellipsis))

ViewOther ==
  /\ Viewing
  /\ \E k \in OtherKeys :
       Apply(k, main_loop_default(widget, current, store, k, ellipsis))

EditKey ==
  /\ Editing
  /\ \E k \in Keys :
       Apply(k, main_loop_editing(widget, current, store, tree, k, ellipsis))

Next ==
  \/ ViewDown
  \/ ViewUp
  \/ ViewDelete
  \/ ViewExit
  \/ ViewConfirm
  \/ ViewOther
  \/ EditKey

Spec == Init /\ [][Next]_vars

---------------------------------------------------------------------------
(* The row enumerator on its own: any tree of FamilyTrees, any scope *)

Idle ==
  /\ key = "NONE"
  /\ pc = "idle"
  /\ widget = ZeroWidget
  /\ current = 0
  /\ store = InitStore
  /\ alert = <<>>
  /\ calls = <<>>
  /\ loads = 0
  /\ fvTrace = <<>>
  /\ frames = 0
  /\ ellipsis = Blank
  /\ shown = NotDrawn
  /\ trail = <<>>
  /\ flat = NotFlat

QueryIndexes == 0..(MaxQ + 1)
QueryIndex(i) == IF i <= MaxQ THEN i ELSE UINT_MAX

RowInit ==
  /\ tree \in FamilyTrees
  /\ qscope = 0
  /\ qrows = <<>>
  /\ rn = 0
  /\ exec = NotRunning
  /\ Idle

Enumerate ==
  /\ \E s \in tree.scopes :
       /\ qscope' = s
       /\ qrows' = [i \in QueryIndexes |-> row(tree, s, QueryIndex(i))]
  /\ UNCHANGED <<tree, flat, rn, exec, mainvars>>

RowNext == Enumerate

RowSpec == RowInit /\ [][RowNext]_vars

---------------------------------------------------------------------------
(* reveal() on its own: the widget of init_widget() for a scope of          *)
(* RevealTree, then reveal ( widget, n ) for any row n of the scope, in any *)
(* order.                                                                   *)

\* 1 is the root with the one child 2; 2 has RevKids leaf children
RevScopes == 1..(RevKids + 2)
RevealTree ==
  MkTree(RevScopes,
         [s \in RevScopes |-> CASE s = 1 -> 0 [] s = 2 -> 1 [] OTHER -> 2],
         [s \in RevScopes |-> CASE s = 1 -> 0 [] s = 2 -> 1 [] OTHER -> 2])

RevealStore ==
  [s \in RevScopes |->
     [d \in SettingIds |-> IF s = 2 /\ d = 3 THEN <<NumVal(1)>> ELSE <<>>]]

\* init_widget() up to its call of reveal()
RevInit ==
  /\ tree = RevealTree
  /\ qscope = 0
  /\ qrows = <<>>
  /\ rn = 0
  /\ exec = NotRunning
  /\ key = "NONE"
  /\ pc = "init_widget"
  /\ \E s \in RevScopes :
       widget = [ZeroWidget EXCEPT
                   !.settings = s,
                   !.total_rows = row(RevealTree, s, UINT_MAX).u,
                   !.first_visible = SETTINGS_LIST_ROWS]
  /\ current = 0
  /\ store = RevealStore
  /\ alert = <<>>
  /\ calls = <<>>
  /\ loads = 0
  /\ fvTrace = <<0, SETTINGS_LIST_ROWS>>
  /\ frames = 0
  /\ ellipsis = Blank
  /\ shown = NotDrawn
  /\ trail = <<>>
  /\ flat = NotFlat

RevealApply(n, r) ==
  /\ rn' = n
  /\ pc' = "reveal"
  /\ widget' = r.w
  /\ fvTrace' = r.trace
  /\ frames' = r.frames
  /\ ellipsis' = r.ell
  /\ loads' = r.loads
  /\ UNCHANGED <<tree, flat, qscope, qrows, exec, key, current, store, alert,
                 calls, shown, trail>>

\* init_widget(): reveal ( widget, 0 )
RevealFirst ==
  /\ pc = "init_widget"
  /\ RevealApply(0, reveal(widget, tree, store, 0, NoUB, ellipsis))

\* reveal ( widget, n ) for a row n of the scope
RevealAny ==
  /\ pc = "reveal"
  /\ \E n \in 0..(widget.total_rows - 1) :
       RevealApply(n, reveal(widget, tree, store, n, NoUB, ellipsis))

RevealNext == RevealFirst \/ RevealAny

RevealSpec == RevInit /\ [][RevealNext]_vars

---------------------------------------------------------------------------
(* scriptlet_exec() on its own: a store in which a child of the root holds  *)
(* any scriptlet of Scripts, or none                                        *)

ScriptStores ==
  { [InitStore EXCEPT ![3][1] = v] :
      v \in {<<>>} \cup {<<StrVal(text)>> : text \in Scripts} }

ScriptInit ==
  /\ tree = MainTree
  /\ qscope = 0
  /\ qrows = <<>>
  /\ rn = 0
  /\ exec = [NotRunning EXCEPT !.pc = "start"]
  /\ key = "NONE"
  /\ pc = "idle"
  /\ widget = ZeroWidget
  /\ current = 0
  /\ store \in ScriptStores
  /\ alert = <<>>
  /\ calls = <<>>
  /\ loads = 0
  /\ fvTrace = <<>>
  /\ frames = 0
  /\ ellipsis = Blank
  /\ shown = NotDrawn
  /\ trail = <<>>
  /\ flat = NotFlat

ScriptStart ==
  /\ exec.pc = "start"
  /\ exec' = scriptlet_start(exec, tree, store)
  /\ UNCHANGED <<tree, flat, qscope, qrows, rn, mainvars>>

ScriptLoop ==
  /\ exec.pc = "loop"
  /\ exec' = scriptlet_loop(exec)
  /\ UNCHANGED <<tree, flat, qscope, qrows, rn, mainvars>>

ScriptLast ==
  /\ exec.pc = "last"
  /\ exec' = scriptlet_last(exec)
  /\ UNCHANGED <<tree, flat, qscope, qrows, rn, mainvars>>

ScriptNext == ScriptStart \/ ScriptLoop \/ ScriptLast

ScriptSpec == ScriptInit /\ [][ScriptNext]_vars

---------------------------------------------------------------------------
(* The two variants side by side, on the same keys, on scopes with no      *)
(* parent, no child and no read-only relevant setting                      *)

\* Four detached scopes: 1 has the FlatN settings of FlatTag, 2 and 3 have
\* the one setting of tag type 1 (the block behind 3 refuses to store), 4
\* has no relevant setting.
FlatScopes == 1..4
FlatTree ==
  MkTree(FlatScopes, [s \in FlatScopes |-> 0],
         [s \in FlatScopes |-> CASE s = 1 -> FlatTag [] s = 4 -> 2
                                  [] OTHER -> 1])

FlatStore ==
  [s \in MainScopes |->
     [d \in SettingIds |->
        CASE s = 1 /\ d = 4 -> <<StrVal(<<"x">>)>>
          [] s = 1 /\ d = 5 -> <<NumVal(1)>>
          [] s = 3 /\ d = 3 -> <<NumVal(1)>>
          [] OTHER -> <<>>]]

FlatInit ==
  /\ tree = FlatTree
  /\ qscope = 0
  /\ qrows = <<>>
  /\ rn = 0
  /\ exec = NotRunning
  /\ store = FlatStore
  /\ key = "NONE"
  /\ alert = <<>>
  /\ calls = <<>>
  /\ trail = <<>>
  /\ \E s \in FlatScopes : \E ub \in UBsOf(FlatTree, s) :
       LET r == main_loop_enter(s, FlatTree, FlatStore, ub, Blank)
       IN /\ pc = r.pc
          /\ widget = r.widget
          /\ current = r.current
          /\ loads = r.loads
          /\ fvTrace = r.fvTrace
          /\ frames = r.frames
          /\ ellipsis = r.ellipsis
          /\ shown = IF r.pc = "getkey"
                     THEN Redraw(r.widget, FlatTree, FlatStore)
                     ELSE NotDrawn
          /\ flat = flat_main_loop_enter(s, FlatTree, FlatStore, ub)

\* the row object of the tree-navigating variant that stands for what
\* relevant_setting() returned
RowOf(p) == IF p.ptr THEN Ro("SETTING_ROW", p.v) ELSE Ro("ROW_CNT", p.v)

\* both variants are at the same place in the same state
SameState ==
  /\ pc = flat.pc
  /\ widget.settings = flat.widget.settings
  /\ widget.total_rows = flat.widget.total_rows
  /\ current = flat.current
  /\ widget.first_visible = flat.widget.first_visible
  /\ widget.ro = RowOf(flat.widget.setting)
  /\ widget.row = flat.widget.row
  /\ widget.editing = flat.widget.editing
  /\ widget.value = flat.widget.value
  /\ store = flat.store

\* one key read by both variants while both wait in getkey() in the same
\* state (the comparison ends where they part); a read through a count
\* taken for a pointer has the same outcome in both
FlatKey ==
  /\ pc = "getkey"
  /\ flat.pc = "getkey"
  /\ SameState
  /\ \E k \in Keys : \E ub \in UBsOf(tree, widget.settings) :
       /\ ( k = "KEY_DOWN" /\ widget.total_rows = 0 ) => current < MaxCur
       /\ Session(k, main_loop(widget, current, store, tree, k, ub, ellipsis))
       /\ flat' = flat_main_loop(flat, tree, k, ub)
       /\ UNCHANGED <<tree, qscope, qrows, rn, exec>>

FlatNext == FlatKey

FlatSpec == FlatInit /\ [][FlatNext]_vars

---------------------------------------------------------------------------
(* The canonical order of the rows of a scope, stated on its own *)

ParentRows(t, s) ==
  IF t.parent[s] # 0 THEN <<Ro("PARENT_ROW", t.parent[s])>> ELSE <<>>

ChildRows(t, s) ==
  [i \in 1..Len(t.children[s]) |-> Ro("CHILD_ROW", t.children[s][i])]

RECURSIVE SettingRowsFrom(_, _, _)
SettingRowsFrom(t, s, d) ==
  IF d > NUM_SETTINGS THEN <<>>
  ELSE (IF relevant(t, s, d) THEN <<Ro("SETTING_ROW", d)>> ELSE <<>>)
       \o SettingRowsFrom(t, s, d + 1)

CanonRows(t, s) ==
  ParentRows(t, s) \o ChildRows(t, s) \o SettingRowsFrom(t, s, 1)

TrueCount(t, s) ==
  (IF t.parent[s] # 0 THEN 1 ELSE 0) + Len(t.children[s])
  + Cardinality({d \in SettingIds : relevant(t, s, d)})

\* C1: row(S, .) enumerates the rows of S in canonical order: the Parent row
\* at index 0 iff S has a parent, then one Child row per direct child in
\* child-list order, then one Setting row per relevant registry descriptor in
\* registry order; no row appears twice, and the number of real rows is
\* [S has a parent] + |children(S)| + |{d : relevant(S, d)}|.
C1_CanonicalOrder ==
  qscope # 0 =>
    LET canon == CanonRows(tree, qscope)
        real  == {i \in 0..MaxQ : qrows[i].type # "ROW_CNT"}
    IN /\ Len(canon) <= MaxQ
       /\ \A i \in 0..MaxQ : i < Len(canon) => qrows[i] = canon[i + 1]
       /\ (qrows[0].type = "PARENT_ROW") = (tree.parent[qscope] # 0)
       /\ qrows[0].type = "PARENT_ROW" => qrows[0].u = tree.parent[qscope]
       /\ \A i, j \in real : i # j => qrows[i] # qrows[j]
       /\ Cardinality(real) = TrueCount(tree, qscope)

\* Example B: a scope with a parent, two children and one relevant setting
C1_Witness ==
  /\ qscope # 0
  /\ tree.parent[qscope] # 0
  /\ Len(tree.children[qscope]) = 2
  /\ qrows[0] = Ro("PARENT_ROW", tree.parent[qscope])
  /\ qrows[1] = Ro("CHILD_ROW", tree.children[qscope][1])
  /\ qrows[2] = Ro("CHILD_ROW", tree.children[qscope][2])
  /\ qrows[3].type = "SETTING_ROW"
  /\ qrows[4] = Ro("ROW_CNT", 4)

C2_CountRows ==
  qscope # 0 =>
    \A i \in QueryIndexes :
      IF ULt(QueryIndex(i), TrueCount(tree, qscope))
      THEN qrows[i].type # "ROW_CNT"
      ELSE qrows[i] = Ro("ROW_CNT", TrueCount(tree, qscope))

C2_Repeatable ==
  (qscope # 0 /\ qscope' = qscope) => qrows' = qrows

\* C2: row(S, n) is Count(true-count(S)) for every n >= true-count(S), is
\* never a Count row for n < true-count(S), and a repeated query of the same
\* scope returns the same rows.
C2_CountRow == [](C2_CountRows) /\ [][C2_Repeatable]_vars

\* Example A's shape: no parent, no child, relevant settings only, queried
\* beyond the count and with UINT_MAX
C2_Witness ==
  /\ qscope # 0
  /\ tree.parent[qscope] = 0
  /\ tree.children[qscope] = <<>>
  /\ qrows[0].type = "SETTING_ROW"
  /\ qrows[2] = Ro("ROW_CNT", 2)
  /\ qrows[MaxQ + 1] = Ro("ROW_CNT", 2)

---------------------------------------------------------------------------
(* The navigator: scrolling and selection *)

PageAligned(fv) == fv % SETTINGS_LIST_ROWS = 0

\* C3: first_visible is a multiple of the page size SETTINGS_LIST_ROWS in
\* every state of the navigator, the values it takes inside init_widget()
\* and reveal() included.
C3_FirstVisiblePageAligned ==
  pc # "idle" =>
    /\ PageAligned(widget.first_visible)
    /\ \A i \in 1..Len(fvTrace) : PageAligned(fvTrace[i])

\* a jump-scroll from the first page to the second has happened
C3_Witness ==
  /\ Viewing
  /\ key = "KEY_DOWN"
  /\ frames = 1
  /\ widget.first_visible = SETTINGS_LIST_ROWS
  /\ current = SETTINGS_LIST_ROWS
  /\ widget.total_rows > SETTINGS_LIST_ROWS

\* C4 (as claimed): whenever the navigator waits for a key, the selected
\* index is within [0, total_rows), a scope with no row included.
C4_SelectedInRange ==
  pc = "getkey" => (current >= 0 /\ ULt(current, widget.total_rows))

\* C5 (as claimed): the delete key on the Setting row at index i, not the
\* last row, decreases total_rows by one and makes row(i) the prior
\* row(i + 1).
C5_DeleteShiftsRows ==
  [][ ( /\ Viewing
        /\ key' = "CTRL_D"
        /\ widget.ro.type = "SETTING_ROW"
        /\ current < widget.total_rows - 1 )
      => ( /\ widget'.total_rows = widget.total_rows - 1
           /\ row(tree', widget'.settings, current')
                = row(tree, widget.settings, current + 1) ) ]_vars

\* C5 (amended): the delete key on a Setting row at index i issues one
\* delete call for (current scope, descriptor) and leaves the row list as it
\* was: total_rows, the selection, the selected row object and row(i) are
\* unchanged; the row stays, and its value is reloaded from the store.
C5_DeleteKeepsRows ==
  [][ ( /\ Viewing
        /\ key' = "CTRL_D"
        /\ widget.ro.type = "SETTING_ROW" )
      => ( /\ calls' = <<Call("delete", widget.settings, widget.ro.u, <<>>, 0)>>
           /\ store' = delete_setting(store, widget.settings, widget.ro.u)
           /\ widget'.total_rows = widget.total_rows
           /\ widget'.total_rows = row(tree', widget'.settings, UINT_MAX).u
           /\ current' = current
           /\ widget'.ro = widget.ro
           /\ row(tree', widget'.settings, current') = widget.ro
           /\ widget'.value
                = fetchf_setting(tree', store', widget'.settings, widget'.ro.u)
           /\ Viewing' ) ]_vars

\* a stored value of a Setting row that is not the last row was deleted
C5_Witness ==
  /\ Viewing
  /\ key = "CTRL_D"
  /\ calls # <<>>
  /\ calls[1].op = "delete"
  /\ widget.ro.type = "SETTING_ROW"
  /\ current < widget.total_rows - 1
  /\ store # InitStore
  /\ store[widget.settings][widget.ro.u] = <<>>

NonEditableRow(w) ==
  \/ w.ro.type \in {"PARENT_ROW", "CHILD_ROW"}
  \/ w.ro.type = "SETTING_ROW" /\ TAG_READONLY(w.ro.u)

\* C6 (as claimed): the delete key in Viewing on a read-only Setting row or
\* on a Parent/Child row is rejected: an alert, no delete call, and neither
\* the navigator nor the store changes.
C6_DeleteRejected ==
  [][ ( /\ Viewing
        /\ key' = "CTRL_D"
        /\ NonEditableRow(widget) )
      => ( /\ alert' # NoAlert
           /\ calls' = <<>>
           /\ store' = store
           /\ widget' = widget
           /\ current' = current
           /\ pc' = pc ) ]_vars

\* C7: an edit attempt on a read-only Setting row (the confirm key or any
\* key of the default case), or a key of the default case on a Parent/Child
\* row, raises the alert and changes nothing: still Viewing, same scope and
\* selection, no load_setting(), no store or delete call.
C7_EditRejected ==
  [][ ( /\ Viewing
        /\ \/ /\ widget.ro.type = "SETTING_ROW"
              /\ TAG_READONLY(widget.ro.u)
              /\ key' \in ConfirmKeys \cup OtherKeys
           \/ /\ widget.ro.type \in {"PARENT_ROW", "CHILD_ROW"}
              /\ key' \in OtherKeys )
      => ( /\ alert' = ReadOnlyAlert
           /\ Viewing'
           /\ widget' = widget
           /\ current' = current
           /\ loads' = 0
           /\ calls' = <<>>
           /\ store' = store ) ]_vars

\* an edit key was just rejected on a read-only Setting row
C7_Witness ==
  /\ Viewing
  /\ key \in Chars
  /\ alert = ReadOnlyAlert
  /\ widget.ro.type = "SETTING_ROW"
  /\ TAG_READONLY(widget.ro.u)
  /\ store[widget.settings][widget.ro.u] # <<>>

\* C8: a commit that the store rejects leaves the store unchanged, raises the
\* alert naming the setting, returns to Viewing, and leaves in the buffer
\* what a fetch of the same (scope, descriptor) returns: the value from
\* before the edit attempt, empty if there was none.
C8_RejectedCommit ==
  [][ ( /\ Editing
        /\ key' \in ConfirmKeys
        /\ save_setting(widget, store).rc # 0 )
      => ( /\ calls' = <<Call("storef", widget.settings, widget.ro.u,
                              widget.value,
                              save_setting(widget, store).rc)>>
           /\ store' = store
           /\ alert' = CouldNotSet(widget.ro.u)
           /\ Viewing'
           /\ widget'.settings = widget.settings
           /\ widget'.ro = widget.ro
           /\ current' = current
           /\ widget'.value
                = fetchf_setting(tree, store', widget.settings, widget.ro.u)
           /\ widget'.value
                = fetchf_setting(tree, store, widget.settings, widget.ro.u) ) ]_vars

\* a text the store rejected was typed, and the buffer shows something else
C8_Witness ==
  /\ Viewing
  /\ key \in ConfirmKeys
  /\ alert # NoAlert
  /\ alert[1] = "Could not set"
  /\ calls # <<>>
  /\ calls[1].op = "storef"
  /\ calls[1].rc # 0
  /\ calls[1].text # widget.value
  /\ calls[1].text # <<>>

\* C9 (as claimed): the session ends only by the exit key pressed in
\* Viewing; no other key on any row of any scope ends it, and after an alert
\* the loop is in Viewing, accepting the next key.
C9_OnlyExitKeyTerminates ==
  [][ /\ (pc = "getkey" /\ pc' = "done")
         => (key' = "CTRL_X" /\ widget.editing = 0)
      /\ (pc = "getkey" /\ alert' # NoAlert) => Viewing' ]_vars

NavTarget(t, s, n) ==
  IF t.parent[s] # 0 /\ n = 0 THEN t.parent[s]
  ELSE t.children[s][n + 1 - (IF t.parent[s] # 0 THEN 1 ELSE 0)]

\* C10: the confirm key in Viewing on a Parent row (a Child row) re-enters
\* the navigator on the parent (that child): Viewing, selection 0,
\* first_visible 0, the frame redrawn, total_rows counted for the new scope,
\* row 0 of the new scope selected, and no store call.
C10_ConfirmNavigates ==
  [][ ( /\ Viewing
        /\ key' \in ConfirmKeys
        /\ widget.ro.type \in {"PARENT_ROW", "CHILD_ROW"} )
      => ( /\ Viewing'
           /\ widget'.settings = NavTarget(tree, widget.settings, current)
           /\ widget.ro.type = "PARENT_ROW"
                => widget'.settings = tree.parent[widget.settings]
           /\ current' = 0
           /\ widget'.first_visible = 0
           /\ frames' = 1
           /\ widget'.total_rows = TrueCount(tree, widget'.settings)
           /\ widget'.ro = CanonRows(tree, widget'.settings)[1]
           /\ calls' = <<>>
           /\ store' = store ) ]_vars

\* the navigator was re-entered on a child that is not the first child,
\* from a selection on the second page
C10_Witness ==
  /\ Viewing
  /\ key \in ConfirmKeys
  /\ fvTrace = <<0, SETTINGS_LIST_ROWS, 0>>
  /\ tree.parent[widget.settings] = 2
  /\ widget.settings = tree.children[2][NumKids]
  /\ current = 0
  /\ widget.ro = Ro("PARENT_ROW", 2)

---------------------------------------------------------------------------
(* The scroll window *)

PageOf(n) == SETTINGS_LIST_ROWS * (n \div SETTINGS_LIST_ROWS)

InWindow(fv, n) == fv <= n /\ n < fv + SETTINGS_LIST_ROWS

\* successive values of first_visible, from fv on, differ by one page
RECURSIVE PageSteps(_, _)
PageSteps(fv, tr) ==
  tr = <<>> \/ ( /\ tr[1] \in {fv - SETTINGS_LIST_ROWS, fv + SETTINGS_LIST_ROWS}
                 /\ PageSteps(tr[1], Tail(tr)) )

\* C11: reveal(n), called with first_visible a multiple of the page size P:
\* if first_visible <= n < first_visible + P then the widget is unchanged and
\* no frame is redrawn; otherwise first_visible moves in steps of P, ends at
\* P * floor(n / P), the frame is redrawn and row n is selected, so that
\* first_visible <= n < first_visible + P afterwards.  The call from
\* init_widget() (first_visible = P, n = 0) is off-screen: it redraws the
\* frame and ends with first_visible = 0.
C11_RevealContract ==
  [][ ( pc' = "reveal" /\ PageAligned(widget.first_visible) )
      => /\ IF InWindow(widget.first_visible, rn')
            THEN /\ widget' = widget
                 /\ fvTrace' = <<>>
                 /\ frames' = 0
            ELSE /\ widget'.first_visible = PageOf(rn')
                 /\ fvTrace' # <<>>
                 /\ PageSteps(widget.first_visible, fvTrace')
                 /\ frames' = 1
                 /\ widget'.ro = row(tree, widget.settings, rn')
         /\ InWindow(widget'.first_visible, rn')
         /\ pc = "init_widget"
              => ( /\ widget.first_visible = SETTINGS_LIST_ROWS
                   /\ rn' = 0
                   /\ frames' = 1
                   /\ widget'.first_visible = 0 ) ]_vars

\* a jump from the first page over the third to the last row's page
C11_Witness ==
  /\ pc = "reveal"
  /\ frames = 1
  /\ fvTrace = <<SETTINGS_LIST_ROWS, 2 * SETTINGS_LIST_ROWS,
                 3 * SETTINGS_LIST_ROWS, 2 * SETTINGS_LIST_ROWS>>
  /\ rn > 2 * SETTINGS_LIST_ROWS
  /\ widget.first_visible = 2 * SETTINGS_LIST_ROWS
  /\ widget.ro.type = "SETTING_ROW"

\* C12: reveal(n) is idempotent: a second reveal(n) right after the first,
\* for any row n of the scope, leaves first_visible, the selected row and
\* the whole widget as the first call left them, and redraws nothing.
C12_RevealIdempotent ==
  [][ ( pc = "reveal" /\ pc' = "reveal" /\ rn' = rn )
      => ( /\ widget'.first_visible = widget.first_visible
           /\ widget'.ro = widget.ro
           /\ widget'.row = widget.row
           /\ widget' = widget
           /\ frames' = 0 ) ]_vars

\* a page back from the third page was revealed (a first call that scrolled
\* by two pages)
C12_Witness ==
  /\ pc = "reveal"
  /\ frames = 1
  /\ fvTrace = <<SETTINGS_LIST_ROWS, 0>>
  /\ widget.first_visible = 0
  /\ rn > 0
  /\ widget.ro = row(tree, widget.settings, rn)

---------------------------------------------------------------------------
(* The row count and relevance *)

\* C13: whenever the navigator waits for a key, the cached total_rows is the
\* count of the Count row of the current scope: row(scope, n) is
\* Count(total_rows) for n at and past the count, and total_rows is the true
\* row count, after any sequence of keys, commits and deletes included.
C13_TotalRowsCached ==
  pc = "getkey" =>
    /\ widget.total_rows = TrueCount(tree, widget.settings)
    /\ \A n \in {widget.total_rows, widget.total_rows + 1, UINT_MAX} :
         row(tree, widget.settings, n) = Ro("ROW_CNT", widget.total_rows)

\* a delete call was just issued in a scope in which a commit had stored a
\* value before
C13_Witness ==
  /\ pc = "getkey"
  /\ key = "CTRL_D"
  /\ calls # <<>>
  /\ widget.total_rows > 0
  /\ \E d \in SettingIds :
       /\ store[widget.settings][d] # <<>>
       /\ store[widget.settings][d] # InitStore[widget.settings][d]

\* x is s or a descendant of s, found by climbing the parent references
RECURSIVE InSubtree(_, _, _)
InSubtree(t, s, x) ==
  x = s \/ (t.parent[x] # 0 /\ InSubtree(t, s, t.parent[x]))

SubtreeTags(t, s) == {t.tag[x] : x \in {y \in t.scopes : InSubtree(t, s, y)}}

\* C14: relevant(S, d) holds iff the tag type of d is the tag type of S or of
\* a descendant of S at any depth, and the Setting rows row() returns for S
\* are those of exactly these descriptors.
C14_RelevantIffSubtreeTag ==
  qscope # 0 =>
    \A d \in SettingIds :
      /\ relevant(tree, qscope, d) <=> TAG_TYPE(d) \in SubtreeTags(tree, qscope)
      /\ (\E i \in 0..MaxQ : qrows[i] = Ro("SETTING_ROW", d))
           <=> TAG_TYPE(d) \in SubtreeTags(tree, qscope)

\* a setting relevant through a grandchild only, next to settings relevant
\* to no scope of the subtree
C14_Witness ==
  /\ qscope # 0
  /\ TAG_TYPE(3) # tree.tag[qscope]
  /\ Len(tree.children[qscope]) = 1
  /\ TAG_TYPE(3) # tree.tag[tree.children[qscope][1]]
  /\ Len(tree.children[tree.children[qscope][1]]) = 1
  /\ TAG_TYPE(3) = tree.tag[tree.children[tree.children[qscope][1]][1]]
  /\ TAG_TYPE(1) \notin SubtreeTags(tree, qscope)
  /\ \E i \in 0..MaxQ : qrows[i] = Ro("SETTING_ROW", 3)
  /\ \A i \in 0..MaxQ : qrows[i] # Ro("SETTING_ROW", 1)

---------------------------------------------------------------------------
(* The edit state machine *)

\* what stays as it was when a key edits, commits or discards in place
SamePlace ==
  /\ widget'.settings = widget.settings
  /\ widget'.total_rows = widget.total_rows
  /\ widget'.first_visible = widget.first_visible
  /\ widget'.ro = widget.ro
  /\ widget'.row = widget.row
  /\ current' = current

\* C15: a commit the store accepts issues one typed store of the edit buffer
\* for (current scope, selected descriptor) and changes no other stored
\* value, then reloads: the navigator is in Viewing showing what a fetch of
\* the setting now returns, with no alert and the same scope and selection.
C15_AcceptedCommit ==
  [][ ( /\ Editing
        /\ key' \in ConfirmKeys
        /\ save_setting(widget, store).rc = 0 )
      => ( /\ calls' = <<Call("storef", widget.settings, widget.ro.u,
                              widget.value, 0)>>
           /\ store' = save_setting(widget, store).store
           /\ \A s \in tree.scopes : \A d \in SettingIds :
                (s # widget.settings \/ d # widget.ro.u)
                  => store'[s][d] = store[s][d]
           /\ loads' = 1
           /\ alert' = NoAlert
           /\ Viewing'
           /\ widget'.value
                = fetchf_setting(tree, store', widget.settings, widget.ro.u)
           /\ SamePlace ) ]_vars

\* a typed text was committed and is now both stored and shown
C15_Witness ==
  /\ Viewing
  /\ key \in ConfirmKeys
  /\ calls # <<>>
  /\ calls[1].op = "storef"
  /\ calls[1].rc = 0
  /\ calls[1].text # <<>>
  /\ widget.value = calls[1].text
  /\ store[widget.settings][widget.ro.u] # <<>>
  /\ store[widget.settings][widget.ro.u]
       # InitStore[widget.settings][widget.ro.u]

\* C16: the cancel key while Editing issues no store or delete call and
\* leaves the store as it was; the buffer is reloaded with what a fetch of
\* the selected setting returns, whatever was typed, and the navigator is in
\* Viewing with the same scope and selection.
C16_Discard ==
  [][ ( Editing /\ key' = "CTRL_C" )
      => ( /\ calls' = <<>>
           /\ store' = store
           /\ loads' = 1
           /\ alert' = NoAlert
           /\ Viewing'
           /\ widget'.value
                = fetchf_setting(tree, store, widget.settings, widget.ro.u)
           /\ SamePlace ) ]_vars

\* an edit of a setting with a value was discarded
C16_Witness ==
  /\ Viewing
  /\ key = "CTRL_C"
  /\ loads = 1
  /\ calls = <<>>
  /\ widget.ro.type = "SETTING_ROW"
  /\ widget.value # <<>>

\* C17: in Viewing on a Setting row that is not read-only, the confirm key
\* or a printable key sets the editing flag; the scope, the selection, the
\* selected row and first_visible stay, nothing is stored and no alert is
\* raised.
C17_EnterEditing ==
  [][ ( /\ Viewing
        /\ widget.ro.type = "SETTING_ROW"
        /\ ~TAG_READONLY(widget.ro.u)
        /\ key' \in ConfirmKeys \cup Chars )
      => ( /\ Editing'
           /\ widget'.editing = 1
           /\ SamePlace
           /\ calls' = <<>>
           /\ store' = store
           /\ alert' = NoAlert ) ]_vars

\* the confirm key started an edit on a row that is not the first
C17_Witness ==
  /\ Editing
  /\ key \in ConfirmKeys
  /\ current > 0
  /\ widget.ro.type = "SETTING_ROW"
  /\ ~TAG_READONLY(widget.ro.u)

---------------------------------------------------------------------------
(* Moving the selection *)

AfterMove ==
  /\ InWindow(widget'.first_visible, current')
  /\ store' = store
  /\ calls' = <<>>
  /\ widget'.settings = widget.settings
  /\ widget'.editing = 0

\* C18 (as claimed): in Viewing, KEY_DOWN moves the selection down by one
\* iff selection < total_rows - 1 and KEY_UP moves it up by one iff
\* selection > 0, else the selection stays; afterwards the selection is
\* inside the window, and the store, the scope and the editing flag are as
\* before.
C18_UpDownByOne ==
  [][ /\ ( Viewing /\ key' = "KEY_DOWN" )
           => ( /\ current' = IF current < widget.total_rows - 1
                               THEN current + 1 ELSE current
                /\ AfterMove )
      /\ ( Viewing /\ key' = "KEY_UP" )
           => ( /\ current' = IF current > 0 THEN current - 1 ELSE current
                /\ AfterMove ) ]_vars

---------------------------------------------------------------------------
(* What the screen shows *)

\* C19: whenever the navigator waits for a key in Viewing with a Setting
\* row selected, the buffer holds what a fetch of (current scope, selected
\* descriptor) returns in that state, formatted by the setting's type, and
\* is empty when the fetch finds no value.
C19_DisplayedIsFetched ==
  ( Viewing /\ widget.ro.type = "SETTING_ROW" ) =>
    /\ widget.value
         = fetchf_setting(tree, store, widget.settings, widget.ro.u)
    /\ fetch_setting(tree, store, widget.settings, widget.ro.u) = <<>>
         => widget.value = <<>>

\* a value was deleted from the root scope, where a commit had stored a
\* value before, and the row now shows the value a child scope holds
C19_Witness ==
  /\ Viewing
  /\ key = "CTRL_D"
  /\ calls # <<>>
  /\ widget.settings = 1
  /\ widget.ro.type = "SETTING_ROW"
  /\ store[1][widget.ro.u] = <<>>
  /\ widget.value # <<>>
  /\ store[1] # InitStore[1]

\* C20: whenever the navigator waits for a key, the marker above the list is
\* on screen iff first_visible > 0 and the marker below iff
\* first_visible + P < total_rows.
C20_EllipsisMarkers ==
  pc = "getkey" =>
    /\ ellipsis.top <=> widget.first_visible > 0
    /\ ellipsis.bottom
         <=> widget.first_visible + SETTINGS_LIST_ROWS < widget.total_rows

\* the confirm key on a Child row of the second page, whose marker above was
\* on screen, entered a scope that fits on one page
C20_Witness ==
  /\ pc = "getkey"
  /\ key \in ConfirmKeys
  /\ frames = 1
  /\ tree.parent[widget.settings] = 2
  /\ widget.settings = tree.children[2][SETTINGS_LIST_ROWS - 1]
  /\ widget.total_rows < SETTINGS_LIST_ROWS
  /\ ellipsis = Blank

\* C21: the selected row as drawn when the navigator waits for a key: a
\* Parent or Child row is bold; a Setting row is bold iff the current scope
\* itself holds a value for it; the "inherited" line is on screen iff the
\* row is a Setting row for which a value is found while the current scope
\* holds none.  So a Setting row for which a value is found has exactly one
\* of the two, and a Parent or Child row never has the line.
C21_BoldAndInherited ==
  pc = "getkey" =>
    LET s == widget.settings
        d == widget.ro.u
    IN /\ widget.ro.type \in {"PARENT_ROW", "CHILD_ROW"}
            => (shown.bold /\ ~shown.inherited)
       /\ widget.ro.type = "SETTING_ROW" =>
            /\ shown.bold <=> store[s][d] # <<>>
            /\ shown.inherited
                 <=> ( /\ store[s][d] = <<>>
                       /\ \E x \in tree.scopes :
                            InSubtree(tree, s, x) /\ store[x][d] # <<>> )
            /\ (\E x \in tree.scopes :
                   InSubtree(tree, s, x) /\ store[x][d] # <<>>)
                 => (shown.bold # shown.inherited)

\* a Setting row of the root showing, not in bold and with the line, the
\* value that only a child scope holds
C21_Witness ==
  /\ Viewing
  /\ widget.settings = 1
  /\ widget.ro.type = "SETTING_ROW"
  /\ store[1][widget.ro.u] = <<>>
  /\ widget.value # <<>>
  /\ ~shown.bold
  /\ shown.inherited

---------------------------------------------------------------------------
(* The scriptlet *)

\* the scriptlet the store holds for the root of the tree or below it
StoredScript == fetch_setting(tree, store, 1, 1)

\* The reference decoding: the text read left to right as tokens, a
\* separator for backslash-n, the character X for any other backslash-X and
\* for any other X, nothing for a backslash that ends the text
Tok(sep, ch) == [sep |-> sep, ch |-> ch]

RECURSIVE Tokens(_, _)
Tokens(text, i) ==
  IF i > Len(text) THEN <<>>
  ELSE IF text[i] # "\\" THEN <<Tok(FALSE, text[i])>> \o Tokens(text, i + 1)
       ELSE IF i = Len(text) THEN <<>>
            ELSE IF text[i + 1] = "n"
                 THEN <<Tok(TRUE, "n")>> \o Tokens(text, i + 2)
                 ELSE <<Tok(FALSE, text[i + 1])>> \o Tokens(text, i + 2)

\* the lines between the separators: one more than there are separators
RECURSIVE Lines(_, _)
Lines(toks, cur) ==
  IF toks = <<>> THEN <<cur>>
  ELSE IF toks[1].sep THEN <<cur>> \o Lines(Tail(toks), <<>>)
       ELSE Lines(Tail(toks), Append(cur, toks[1].ch))

NumSeparators(text) ==
  Cardinality({i \in 1..Len(Tokens(text, 1)) : Tokens(text, 1)[i].sep})

\* C22: scriptlet_exec() passes to system(), in order, the lines of the
\* reference decoding of the stored scriptlet: one more command than there
\* are backslash-n separators, the last line also when it is empty; while it
\* runs the commands issued are the first lines of the decoding; and when
\* no scriptlet is found, or an empty one, no command is executed.
C22_ScriptletDecoding ==
  exec.pc # "none" =>
    LET found == StoredScript # <<>> /\ StoredScript[1].str # <<>>
        text  == StoredScript[1].str
    IN IF ~found THEN exec.cmds = <<>>
       ELSE /\ Len(exec.cmds) <= Len(Lines(Tokens(text, 1), <<>>))
            /\ exec.cmds = SubSeq(Lines(Tokens(text, 1), <<>>), 1,
                                  Len(exec.cmds))
            /\ exec.pc = "return" =>
                 /\ exec.cmds = Lines(Tokens(text, 1), <<>>)
                 /\ Len(exec.cmds) = NumSeparators(text) + 1

\* a script of two lines with an escaped character in the first, and a
\* backslash at its end: the last line is empty and was executed
C22_Witness ==
  /\ exec.pc = "return"
  /\ StoredScript # <<>>
  /\ StoredScript[1].str = <<"\\", "a", "\\", "n", "\\">>
  /\ exec.cmds = << <<"a">>, <<>> >>

\* C29: in scriptlet_exec()'s rewrite of the buffer in place, wherever a
\* byte is read or written: to <= from, line <= to, and from is within the
\* NUL-terminated content; every write lands below the read position or on
\* the byte just read, at an offset no larger than the length of the
\* script and inside the buffer, the final terminator included; and the
\* bytes not yet read are the bytes fetched.
C29_RewriteInPlace ==
  exec.pc \in {"loop", "last", "return"} =>
    LET fetched == scriptlet_fetch(tree, store)
    IN /\ exec.lastw < sizeof_script
       /\ exec.lastw <= fetched.len
       /\ exec.lastw <= exec.from
       /\ exec.pc \in {"loop", "last"} =>
            /\ exec.to <= exec.from
            /\ exec.line <= exec.to
            /\ exec.from <= fetched.len
            /\ exec.lastw < exec.from
            /\ \A i \in exec.from..fetched.len :
                 exec.script[i + 1] = fetched.script[i + 1]
       /\ (exec.pc = "return" /\ fetched.len > 0) =>
            /\ exec.lastw = exec.to - 1
            /\ exec.script[exec.lastw + 1] = NUL

\* the loop has read a script of the greatest length to its end, and the
\* escapes in it have left the write position behind the read position
C29_Witness ==
  /\ exec.pc = "last"
  /\ exec.from = ScriptMax
  /\ exec.script[exec.from + 1] = NUL
  /\ exec.to < exec.from
  /\ exec.line > 0
  /\ exec.line < exec.to

---------------------------------------------------------------------------
(* Moving between scopes *)

\* C23: the confirm key on the Child row of child C of scope S and then, at
\* once, the confirm key in the navigator re-entered on C (selection 0, the
\* Parent row) leave the navigator on S again, in Viewing at selection 0 of
\* the first page, whatever the selection in S was before; in between, the
\* selected row of C is the Parent row of S.
C23_RoundTrip ==
  /\ ( pc = "getkey" /\ Len(trail) = 1
         /\ tree.parent[widget.settings] = trail[1] )
       => ( /\ current = 0
            /\ widget.ro = Ro("PARENT_ROW", trail[1]) )
  /\ ( pc = "getkey" /\ Len(trail) = 2 /\ tree.parent[trail[2]] = trail[1] )
       => ( /\ widget.settings = trail[1]
            /\ Viewing
            /\ current = 0
            /\ widget.first_visible = 0
            /\ widget.ro = row(tree, trail[1], 0)
            /\ widget.total_rows = TrueCount(tree, trail[1]) )

\* from the large scope into its last child, selected on the second page,
\* and back
C23_Witness ==
  /\ Viewing
  /\ key \in ConfirmKeys
  /\ trail = <<2, tree.children[2][NumKids]>>
  /\ widget.settings = 2
  /\ current = 0

---------------------------------------------------------------------------
(* Editing and the store *)

IsStore(c) == c.op = "storef"

\* C24: while Editing, every key leaves the scope, the selection,
\* first_visible, total_rows and the selected row as they are, deletes
\* nothing and does not end the session; KEY_UP, KEY_DOWN, the delete key
\* and the exit key leave the store alone and the state Editing; the state
\* after the key is Viewing iff the key is a confirm key or the cancel key.
C24_EditingFrame ==
  [][ Editing
      => ( /\ SamePlace
           /\ pc' = "getkey"
           /\ \A i \in 1..Len(calls') : calls'[i].op # "delete"
           /\ key' \in {"KEY_UP", "KEY_DOWN", "CTRL_D", "CTRL_X"}
                => ( Editing' /\ store' = store /\ calls' = <<>> )
           /\ Viewing' <=> key' \in ConfirmKeys \cup {"CTRL_C"}
           /\ Editing' <=> key' \notin ConfirmKeys \cup {"CTRL_C"} ) ]_vars

\* the exit key was pressed during an edit of a row on the second page,
\* and the edit goes on
C24_Witness ==
  /\ Editing
  /\ key = "CTRL_X"
  /\ current > 0
  /\ widget.value # fetchf_setting(tree, store, widget.settings, widget.ro.u)

\* C25: the editing flag is set only while a Setting row whose descriptor
\* is not read-only is selected, and a typed store is only ever issued for
\* the current scope and such a descriptor, the one of the selected row.
C25_EditingOnlyEditable ==
  /\ widget.editing # 0
       => ( /\ widget.ro.type = "SETTING_ROW"
            /\ widget.ro.u \in SettingIds
            /\ ~TAG_READONLY(widget.ro.u)
            /\ widget.ro = row(tree, widget.settings, current) )
  /\ \A i \in 1..Len(calls) :
       IsStore(calls[i])
         => ( /\ calls[i].scope = widget.settings
              /\ widget.ro = Ro("SETTING_ROW", calls[i].setting)
              /\ calls[i].setting \in SettingIds
              /\ ~TAG_READONLY(calls[i].setting)
              /\ relevant(tree, calls[i].scope, calls[i].setting) )

\* a typed text is in the buffer of an edit, in a scope that also shows a
\* read-only setting
C25_Witness ==
  /\ Editing
  /\ widget.value # <<>>
  /\ widget.value # fetchf_setting(tree, store, widget.settings, widget.ro.u)
  /\ \E d \in SettingIds :
       TAG_READONLY(d) /\ relevant(tree, widget.settings, d)

\* C26: a typed store is issued only for a confirm key received while
\* Editing, once, for the selected row; a confirm key in Viewing stores
\* nothing; and Editing is entered only from Viewing on the same row and
\* kept only on that row, so the confirm key that stores is a later key
\* than the one that started the edit of that row.
C26_StoreOnlyOnConfirmInEditing ==
  [][ /\ (\E i \in 1..Len(calls') : IsStore(calls'[i]))
           => ( /\ Editing
                /\ key' \in ConfirmKeys
                /\ Len(calls') = 1
                /\ calls'[1].scope = widget.settings
                /\ calls'[1].setting = widget.ro.u
                /\ calls'[1].text = widget.value )
      /\ ( Viewing /\ key' \in ConfirmKeys )
           => ( calls' = <<>> /\ store' = store )
      /\ ( Editing /\ key' \in ConfirmKeys ) => Len(calls') = 1
      /\ store' # store => (\E i \in 1..Len(calls') : TRUE)
      /\ Editing' => ( (Viewing \/ Editing) /\ SamePlace ) ]_vars

\* the second kind of confirm key stored the buffer of the selected row
C26_Witness ==
  /\ Viewing
  /\ key = "LF"
  /\ Len(calls) = 1
  /\ IsStore(calls[1])
  /\ calls[1].rc = 0
  /\ calls[1].scope = widget.settings
  /\ widget.ro = Ro("SETTING_ROW", calls[1].setting)

\* C27: whenever the navigator waits for a key, the widget's row object is
\* row(current scope, selection) and its screen row is
\* SETTINGS_LIST_ROW + selection - first_visible, one of the P rows of the
\* list.
C27_WidgetRow ==
  pc = "getkey" =>
    /\ widget.ro = row(tree, widget.settings, current)
    /\ widget.row = SETTINGS_LIST_ROW + current - widget.first_visible
    /\ widget.row >= SETTINGS_LIST_ROW
    /\ widget.row < SETTINGS_LIST_ROW + SETTINGS_LIST_ROWS
    /\ widget.col = SETTINGS_LIST_COL

\* KEY_UP from the first row of the second page scrolled back to the first
\* page, whose last row is now selected
C27_Witness ==
  /\ Viewing
  /\ key = "KEY_UP"
  /\ frames = 1
  /\ widget.first_visible = 0
  /\ current = SETTINGS_LIST_ROWS - 1
  /\ widget.row = SETTINGS_LIST_ROW + SETTINGS_LIST_ROWS - 1
  /\ widget.ro = row(tree, widget.settings, SETTINGS_LIST_ROWS - 1)

---------------------------------------------------------------------------
(* The two variants compared *)

FlatIndexes == (0..(FlatN + 1)) \cup {UINT_MAX}

\* row(S, n) is Setting(relevant_setting(S, n)), or
\* Count(relevant_setting_cnt(S)) past the last row
SameRows(s) ==
  \A n \in FlatIndexes :
    /\ row(tree, s, n) = RowOf(relevant_setting(tree, s, n))
    /\ row(tree, s, n).type = "ROW_CNT"
         => row(tree, s, n).u = relevant_setting_cnt(tree, s)

\* C28 (as claimed): on a scope with no parent, no children and no
\* read-only relevant setting, row(S, n) of the tree-navigating variant is
\* what relevant_setting(S, n) / relevant_setting_cnt(S) give in the
\* variant without Parent and Child rows, and after every key sequence both
\* variants have the same selection, first_visible, editing flag, buffer
\* and store, and have returned on the same key or not at all.
C28_VariantsEquivalent ==
  /\ \A s \in FlatScopes : SameRows(s)
  /\ SameState

\* the same, for the scopes with at least one relevant setting
C28_EquivalentWithRows ==
  /\ \A s \in FlatScopes : SameRows(s)
  /\ relevant_setting_cnt(tree, widget.settings) > 0 => SameState

===========================================================================
